---- MODULE Spec2Model ----
(***************************************************************************)
(* Message synchronisation engine of backend/app/api/messages.py:          *)
(* the single-flight /sync endpoint, the member and system channel passes, *)
(* the sync cursors, and the per-thread write paths (mark-read, send,      *)
(* refresh) that share the thread/message store with it.                   *)
(***************************************************************************)
EXTENDS Integers, FiniteSets, Sequences, TLC

\* ---------------------------------------------------------------- bounds
\* The wall clock runs from 0 to MaxTime, in ticks of TickMinutes minutes.
MaxTime == 2
MaxLen == 4
TickMinutes == 15
\* The most per-conversation fetches that one gather is given.
MaxFan == 12

\* ------------------------------------------------------ program constants
limit == 50
MaxPagesFull == 5
MaxPagesNormal == 1
PeriodicFullMinutes == 10
Semaphore == 10

\* ------------------------------------------------------------- the world
Callers == {1, 2}
Free == 0
NoValue == "<none>"
NoCursor == -1

\* Message.thread_id.like("stub-%") / MessageThread.thread_id.like("stub-%")
IsStub(thread_id) ==
    Len(thread_id) >= 5 /\ SubSeq(thread_id, 1, 5) = "stub-"

\* settings.EBAY_SELLER_USERNAME, stripped and lower-cased
seller_username == "seller"

VARIABLES
    now,               \* wall clock (ticks)
    ebay,              \* the marketplace: conversation id -> conversation
    threads,           \* committed rows of message_threads
    messages,          \* committed rows of messages
    meta,              \* committed rows of sync_metadata (the four cursors)
    sync_lock,         \* _sync_lock: Free, or the caller that holds it
    sync_in_progress,  \* _sync_in_progress
    call,              \* per caller: where its sync() request stands
    response,          \* the response to a sync() request that the last step
                       \* sent, "none" if it sent none
    sync,              \* locals of the invocation that holds the lock
    text,              \* a call of _strip_html_to_text: arguments and result
    fanout             \* the fetch tasks of the gather that is under way

vars == <<now, ebay, threads, messages, meta, sync_lock, sync_in_progress,
          call, response, sync, text, fanout>>

store == <<threads, messages, meta>>

\* ------------------------------------------------------------ row shapes
\* models/messages.py MessageThread: the columns the sync engine writes
ThreadRow(thread_id, buyer_username) ==
    [thread_id |-> thread_id, buyer_username |-> buyer_username,
     ebay_item_id |-> NoValue, ebay_order_id |-> NoValue,
     created_at |-> 0,
     is_flagged |-> FALSE, message_count |-> 0, unread_count |-> 0]

\* models/messages.py Message
MessageRow(message_id, thread_id, sender_type, sender_username, content, media, is_read) ==
    [message_id |-> message_id, thread_id |-> thread_id,
     sender_type |-> sender_type, sender_username |-> sender_username,
     content |-> content, media |-> media, is_read |-> is_read]

\* the empty transaction of a session: rows added and columns assigned since
\* the last commit
NoTx ==
    [newThreads |-> {}, newMsgs |-> <<>>,
     w |-> [buyer_username |-> {}, message_count |-> {}, unread_count |-> {},
            is_read |-> {}, media |-> {}]]

\* locals of _do_sync_messages / _sync_from_members_full when no invocation
\* is running
IdleSync ==
    [pc |-> "idle", caller |-> Free, full_sync |-> FALSE,
     sync_start_time |-> NoCursor, need_periodic_full |-> FALSE,
     ran_full_sync |-> FALSE, phase |-> "none", offset |-> 0,
     pages_fetched |-> 0, start_offset |-> 0, reached_end |-> FALSE,
     page |-> <<>>, total |-> 0, next |-> FALSE, results |-> <<>>,
     existing |-> {}, error |-> NoValue,
     tx |-> NoTx, threads_synced |-> 0, messages_synced |-> 0,
     ebay_threads_synced |-> 0, ebay_messages_synced |-> 0]

\* _do_sync_messages entered by caller p (messages.py 991-994)
StartSync(p, full) ==
    [IdleSync EXCEPT !.pc = "purge", !.caller = p, !.full_sync = full,
                     !.ran_full_sync = full]

\* ------------------------------------------------- the single-flight guard
\* the guard without its locked() test: every caller goes on to the
\* async-with
LockedNotTested(l) == FALSE

\* _sync_lock.locked() (messages.py 986)
Locked(l) == l # Free

\* the flag reset after the body instead of in a finally clause: a raise
\* skips it
FlagResetOnReturnOnly(how) == how # "ok"

\* the finally clause of sync_messages (messages.py 995-996): the flag after
\* the body has ended in the way `how`
FlagAfterExit(how) == FALSE

\* acquire() and release() around the body instead of the async-with: a
\* raise skips the release
LockReleasedOnReturnOnly(how, waiting) ==
    IF how # "ok" THEN sync_lock
    ELSE IF waiting = {} THEN Free ELSE CHOOSE q \in waiting : TRUE

\* leaving `async with _sync_lock` (messages.py 991): the lock after the body
\* has ended in the way `how`; asyncio hands it to the first waiter, if any
LockAfterExit(how, waiting) ==
    IF waiting = {} THEN Free ELSE CHOOSE q \in waiting : TRUE

Waiting == {q \in Callers : call[q].st = "waiting"}

\* a caller that has no request under way
NoCall == [st |-> "idle", full |-> FALSE]

\* the invocation of caller sync.caller ends (return or raise): its session
\* is closed, so whatever it had not committed is gone
Exit(how) ==
    LET p == sync.caller
        l == LockAfterExit(how, Waiting)
    IN  /\ sync_in_progress' = (IF l = Free THEN FlagAfterExit(how) ELSE TRUE)
        /\ sync_lock' = l
        /\ call' = [q \in Callers |->
                      IF q = p THEN NoCall
                      ELSE IF q = l THEN [st |-> "running", full |-> FALSE]
                      ELSE call[q]]
        /\ response' = how
        /\ sync' = IF l = Free THEN IdleSync ELSE StartSync(l, call[l].full)

\* POST /sync (messages.py 974-996)
SyncCall(p, full) ==
    /\ call[p].st = "idle"
    /\ IF Locked(sync_lock)
       THEN /\ response' = "503"
            /\ UNCHANGED <<sync_lock, sync_in_progress, call, sync>>
       ELSE IF sync_lock = Free
       THEN /\ sync_lock' = p
            /\ sync_in_progress' = TRUE
            /\ call' = [call EXCEPT ![p] = [st |-> "running", full |-> FALSE]]
            /\ sync' = StartSync(p, full)
            /\ response' = "none"
       ELSE /\ call' = [call EXCEPT ![p] = [st |-> "waiting", full |-> full]]
            /\ response' = "none"
            /\ UNCHANGED <<sync_lock, sync_in_progress, sync>>
    /\ UNCHANGED <<fanout, text, now, ebay, threads, messages, meta>>

\* a purge whose LIKE pattern matches no row
PurgedNothing(rows) == rows

\* the two DELETEs without their WHERE clause
PurgedEverything(rows) == {}

\* what the two DELETE ... WHERE thread_id LIKE 'stub-%' leave of a table
\* (messages.py 1150-1155)
Purged(rows) == {r \in rows : ~IsStub(r.thread_id)}

\* the first DELETE of the purge: the messages of placeholder threads
\* (messages.py 1150)
PurgedMessages(rows) == Purged(rows)

\* purge of placeholder threads and its commit (messages.py 1149-1159)
PurgeStubs ==
    /\ sync.pc = "purge"
    /\ \/ /\ messages' = PurgedMessages(messages)
          /\ threads' = Purged(threads)
          /\ sync' = [sync EXCEPT !.pc = "token"]
          /\ UNCHANGED <<sync_lock, sync_in_progress, call>>
          /\ response' = "none"
       \/ /\ Exit("500")
          /\ UNCHANGED <<threads, messages>>
    /\ UNCHANGED <<fanout, text, now, ebay, meta>>

\* need_periodic_full (messages.py 1183-1193)
NeedPeriodicFull(last_full_at, t) ==
    \/ last_full_at = NoCursor
    \/ (t - last_full_at) * TickMinutes > PeriodicFullMinutes

\* token, sync_start_time and the staleness test (messages.py 1161-1195)
GetToken ==
    /\ sync.pc = "token"
    /\ \/ /\ sync' = [sync EXCEPT
                !.pc = IF sync.full_sync THEN "full_fetch" ELSE "incr_fetch",
                !.phase = IF sync.full_sync THEN "full" ELSE "incr",
                !.sync_start_time = now,
                !.need_periodic_full =
                    ~sync.full_sync
                    /\ NeedPeriodicFull(meta.messages_last_full_sync_at, now)]
          /\ UNCHANGED <<sync_lock, sync_in_progress, call>>
          /\ response' = "none"
       \/ Exit("400")
       \/ Exit("500")
    /\ UNCHANGED <<fanout, text, now, ebay, threads, messages, meta>>

\* a BaseException (cancellation of the request task) at the await the
\* invocation is suspended at: no except clause of _do_sync_messages catches
\* it, the finally and the async-with still run
Interrupt ==
    /\ sync.pc # "idle"
    /\ Exit("interrupted")
    /\ UNCHANGED <<fanout, text, now, ebay, threads, messages, meta>>

\* ------------------------------------------------------- the marketplace
Range(s) == {s[i] : i \in 1..Len(s)}

ConvsOf(type) == {c \in DOMAIN ebay : ebay[c].type = type}

RECURSIVE ByPos(_)
\* the conversations S in listing order
ByPos(S) ==
    IF S = {} THEN <<>>
    ELSE LET c == CHOOSE x \in S : \A y \in S : ebay[x].pos <= ebay[y].pos
         IN  <<c>> \o ByPos(S \ {c})

\* the listing entry of conversation c: conversationId and latestMessage
ConvEntry(c) ==
    [conversationId |-> c, latest |-> ebay[c].latest,
     referenceType |-> ebay[c].ref[1], referenceId |-> ebay[c].ref[2],
     createdDate |-> ebay[c].created]

\* "total" of a listing response
Total(type) ==
    IF ConvsOf(type) = {} THEN 0
    ELSE 1 + (CHOOSE n \in {ebay[c].pos : c \in ConvsOf(type)} :
                 \A c \in ConvsOf(type) : ebay[c].pos <= n)

\* fetch_message_conversations_page (ebay_client.py 555-590), no start_time
ConvPage(type, offset) ==
    LET S == {c \in ConvsOf(type) :
                 ebay[c].pos >= offset /\ ebay[c].pos < offset + limit}
        cs == ByPos(S)
    IN  [conversations |-> [i \in 1..Len(cs) |-> ConvEntry(cs[i])],
         total |-> Total(type),
         next |-> offset + limit < Total(type)]

\* fetch_all_conversations: every conversation of the type, or with a
\* start_time only those with buyer activity since then
FetchAllConversations(type, start_time) ==
    LET S == {c \in ConvsOf(type) :
                 start_time = NoCursor \/ ebay[c].activity >= start_time}
        cs == ByPos(S)
    IN  [i \in 1..Len(cs) |-> ConvEntry(cs[i])]

\* fetch_all_conversation_messages (ebay_client.py 618-640)
FetchAllConversationMessages(c) == ebay[c].msgs

\* the results of asyncio.gather(..., return_exceptions=True) over the
\* conversations cids when the fetches of `failed` raise
Gather(cids, failed) ==
    [c \in cids |-> IF c \in failed
                    THEN [ok |-> FALSE, msgs |-> <<>>]
                    ELSE [ok |-> TRUE, msgs |-> FetchAllConversationMessages(c)]]

\* ---------------------------------------------------------- pure helpers
\* _normalize_message_media (messages.py 889-901): entries that are no dict
\* are dropped, a type outside the vocabulary becomes FILE (the stored None
\* of an empty list is the empty list here)
MediaType(x) == IF x \in {"IMAGE", "DOC", "PDF", "TXT"} THEN x ELSE "FILE"

normalize_message_media(raw) ==
    LET dicts == SelectSeq(raw, LAMBDA x : x # "not-a-dict")
    IN  [i \in 1..Len(dicts) |-> MediaType(dicts[i])]

\* the body of a new member message with its attachment list appended
\* (messages.py 1097-1110)
MemberContent(m) ==
    IF m.messageMedia = <<>> THEN m.messageBody
    ELSE IF m.messageBody # "" THEN m.messageBody \o "+att"
    ELSE "att"

\* sender_type of a member message (messages.py 1111-1112)
SenderType(sender) ==
    IF seller_username # "" /\ sender = seller_username
    THEN "seller" ELSE "buyer"

\* _is_seller_username (messages.py 904-913)
is_seller_username(username) ==
    /\ username # NoValue
    /\ \/ username = seller_username
       \/ Len(username) >= 6 /\ SubSeq(username, 1, 6) = "evamp_"

\* _buyer_username_from_conversation (messages.py 933-946), then the
\* callers' "if _is_seller_username(buyer_name): buyer_name = None"
BuyerName(conv) ==
    LET names == SelectSeq(conv.latest,
                           LAMBDA n : n # "" /\ ~is_seller_username(n))
    IN  IF names = <<>> THEN NoValue ELSE names[1]

\* ------------------------------------------------- the session's writes
\* A column of a loaded row is assigned `val`: the unit of work records an
\* UPDATE of that column unless the value equals the one it loaded.
Assign(pairs, key, loaded, val) ==
    LET rest == {p \in pairs : p[1] # key}
    IN  IF val = loaded THEN rest ELSE rest \cup {<<key, val>>}

\* the value an UPDATE list holds for a key, else the stored one
Val(pairs, key, stored) ==
    IF \E p \in pairs : p[1] = key
    THEN (CHOOSE p \in pairs : p[1] = key)[2]
    ELSE stored

\* thread.<col> = val on the thread the session holds for cid: a row it
\* added itself, or a row loaded from the store
SetThreadCol(tx, cid, col, val) ==
    IF \E t \in tx.newThreads : t.thread_id = cid
    THEN [tx EXCEPT !.newThreads =
             {IF t.thread_id = cid THEN [t EXCEPT ![col] = val] ELSE t :
                t \in @}]
    ELSE LET row == CHOOSE t \in threads : t.thread_id = cid
         IN  [tx EXCEPT !.w[col] = Assign(@, cid, row[col], val)]

\* the buyer_username the session sees on the thread of cid
SeenBuyer(tx, cid) ==
    IF \E t \in tx.newThreads : t.thread_id = cid
    THEN (CHOOSE t \in tx.newThreads : t.thread_id = cid).buyer_username
    ELSE Val(tx.w.buyer_username, cid,
             (CHOOSE t \in threads : t.thread_id = cid).buyer_username)

PrimaryKeyNotEnforced(newMsgs, stored) == FALSE

\* message_id is the primary key of messages (models/messages.py 57): an
\* INSERT of an id that is stored, or twice in one flush, is refused
PrimaryKeyConflict(newMsgs, stored) ==
    \/ \E i \in 1..Len(newMsgs) :
          \E m \in stored : m.message_id = newMsgs[i].message_id
    \/ \E i, j \in 1..Len(newMsgs) :
          i < j /\ newMsgs[i].message_id = newMsgs[j].message_id

ThreadAfter(t, w) ==
    [t EXCEPT !.buyer_username = Val(w.buyer_username, t.thread_id, @),
              !.message_count = Val(w.message_count, t.thread_id, @),
              !.unread_count = Val(w.unread_count, t.thread_id, @)]

MessageAfterRewritten(m, w) ==
    [m EXCEPT !.is_read = Val(w.is_read, m.message_id, @),
              !.media = Val(w.media, m.message_id, @),
              !.content = IF \E p \in w.is_read \cup w.media : p[1] = m.message_id
                          THEN "" ELSE @]

MessageAfter(m, w) ==
    [m EXCEPT !.is_read = Val(w.is_read, m.message_id, @),
              !.media = Val(w.media, m.message_id, @)]

\* db.commit() of the transaction tx on the committed store
CommittedThreads(tx) == {ThreadAfter(t, tx.w) : t \in threads} \cup tx.newThreads
CommittedMessages(tx) ==
    {MessageAfter(m, tx.w) : m \in messages} \cup Range(tx.newMsgs)

\* ------------------------------------------------------ the upsert loops
Unread(msgs) == Cardinality({i \in 1..Len(msgs) : ~msgs[i].readStatus})

\* select(Message).where(Message.message_id.in_(page_msg_ids)): the rows of
\* the ids fetched on this page (messages.py 1042-1055)
ExistingById(results) ==
    {r \in messages :
        \E c \in DOMAIN results :
           \E i \in 1..Len(results[c].msgs) :
              results[c].msgs[i].messageId = r.message_id}

\* the row built for a fetched message that is not stored yet
NewMessage(m, cid, kind) ==
    IF kind = "sys"
    THEN MessageRow(m.messageId, cid, "ebay",
                    IF m.senderUsername = "" THEN "eBay" ELSE m.senderUsername,
                    m.messageBody, normalize_message_media(m.messageMedia),
                    m.readStatus)
    ELSE MessageRow(m.messageId, cid, SenderType(m.senderUsername),
                    IF m.senderUsername = "" THEN NoValue ELSE m.senderUsername,
                    MemberContent(m), normalize_message_media(m.messageMedia),
                    m.readStatus)

RECURSIVE UpsertMessages(_, _, _, _, _, _)
\* "for m in msgs" (messages.py 1087-1126, 1298-1337, 1453-1482, 614-661)
\* from index i on; st = [tx, t, m] holds the transaction and the counters
UpsertMessages(st, msgs, cid, kind, existing, i) ==
    IF i > Len(msgs) THEN st
    ELSE LET m == msgs[i]
             rows == {r \in existing : r.message_id = m.messageId}
         IN  IF m.messageId = NoValue
             THEN UpsertMessages(st, msgs, cid, kind, existing, i + 1)
             ELSE IF rows # {}
             THEN LET row == CHOOSE r \in rows : TRUE
                      w1 == Assign(st.tx.w.is_read, row.message_id,
                                   row.is_read, m.readStatus)
                      w2 == Assign(st.tx.w.media, row.message_id, row.media,
                                   normalize_message_media(m.messageMedia))
                  IN  UpsertMessages(
                          [st EXCEPT !.tx.w.is_read = w1, !.tx.w.media = w2],
                          msgs, cid, kind, existing, i + 1)
             ELSE UpsertMessages(
                      [st EXCEPT !.tx.newMsgs = Append(@, NewMessage(m, cid, kind)),
                                 !.m = @ + 1],
                      msgs, cid, kind, existing, i + 1)

\* the rollup written from the fetched list (messages.py 1127-1133,
\* 1338-1344, 1483-1489, 667-673)
Rollup(tx, cid, msgs) ==
    IF msgs = <<>> THEN tx
    ELSE SetThreadCol(SetThreadCol(tx, cid, "message_count", Len(msgs)),
                      cid, "unread_count", Unread(msgs))

\* the row of a conversation met for the first time (messages.py 1073-1080,
\* 1284-1291, 1442-1449): the reference ids and the creation time are those
\* of the listing entry, the time of the insert when the entry has none
NewThread(conv, kind) ==
    [ThreadRow(conv.conversationId,
               IF kind = "sys" THEN "eBay" ELSE BuyerName(conv)) EXCEPT
        !.ebay_item_id = IF conv.referenceType = "LISTING"
                         THEN conv.referenceId ELSE NoValue,
        !.ebay_order_id = IF kind = "sys" /\ conv.referenceType = "ORDER"
                          THEN conv.referenceId ELSE NoValue,
        !.created_at = IF conv.createdDate = NoCursor THEN now
                       ELSE conv.createdDate]

\* a thread row created and counted for every listed conversation, stored
\* or not
UpsertThreadAlwaysNew(st, conv, kind) ==
    [st EXCEPT !.tx.newThreads = @ \cup {NewThread(conv, kind)},
               !.t = @ + 1]

\* a name of the listing replaces the stored one
ReplacesBuyer(seen, name) == name # NoValue

\* "if not thread.buyer_username and buyer_name" (messages.py 1085, 1296)
SetsBuyer(seen, name) == seen = NoValue /\ name # NoValue

\* get-or-create of the thread of a listed conversation (messages.py
\* 1071-1086, 1282-1297, 1437-1452)
UpsertThread(st, conv, kind) ==
    LET cid == conv.conversationId
        known == \/ \E t \in threads : t.thread_id = cid
                 \/ \E t \in st.tx.newThreads : t.thread_id = cid
    IN  IF ~known
        THEN [st EXCEPT !.tx.newThreads = @ \cup {NewThread(conv, kind)},
                        !.t = @ + 1]
        ELSE IF kind # "sys"
                /\ SetsBuyer(SeenBuyer(st.tx, cid), BuyerName(conv))
        THEN [st EXCEPT !.tx = SetThreadCol(@, cid, "buyer_username",
                                            BuyerName(conv))]
        ELSE st

\* one conversation of a page: thread, messages, rollup
UpsertConversation(st, conv, msgs, kind, existing) ==
    LET cid == conv.conversationId
        s1 == UpsertThread(st, conv, kind)
        s2 == UpsertMessages(s1, msgs, cid, kind, existing, 1)
    IN  [s2 EXCEPT !.tx = Rollup(@, cid, msgs)]

RECURSIVE DedupById(_, _)
\* id_to_msgs_merged of the incremental pass (messages.py 1253-1258): the
\* messages that carry an id, the first of each id
DedupById(msgs, seen) ==
    IF msgs = <<>> THEN <<>>
    ELSE IF Head(msgs).messageId = NoValue \/ Head(msgs).messageId \in seen
    THEN DedupById(Tail(msgs), seen)
    ELSE <<Head(msgs)>> \o DedupById(Tail(msgs), seen \cup {Head(msgs).messageId})

\* the list the conversation loop of a pass works on: the incremental pass
\* takes the merged list (empty when the fetch failed), the others the
\* fetched list as it came
PassMessages(kind, result) ==
    IF kind = "incr" THEN DedupById(result.msgs, {}) ELSE result.msgs

RECURSIVE UpsertPage(_, _, _, _, _, _)
\* "for conv in conversations" from index i on; a full or system page skips
\* a conversation whose fetch failed
UpsertPage(st, page, results, kind, existing, i) ==
    IF i > Len(page) THEN st
    ELSE LET conv == page[i]
             r == results[conv.conversationId]
         IN  IF kind # "incr" /\ ~r.ok
             THEN UpsertPage(st, page, results, kind, existing, i + 1)
             ELSE UpsertPage(
                      UpsertConversation(st, conv, PassMessages(kind, r),
                                         kind, existing),
                      page, results, kind, existing, i + 1)

\* ------------------------------------------------- the member-channel pass
Continue(s) ==
    /\ sync' = s
    /\ UNCHANGED <<sync_lock, sync_in_progress, call>>
    /\ response' = "none"

\* db.commit() of tx inside the try of _do_sync_messages, the invocation
\* going on as `s`; an IntegrityError ends it with `conflict`
CommitThen(tx, s, conflict) ==
    IF PrimaryKeyConflict(tx.newMsgs, messages)
    THEN /\ Exit(conflict)
         /\ UNCHANGED <<threads, messages>>
    ELSE /\ threads' = CommittedThreads(tx)
         /\ messages' = CommittedMessages(tx)
         /\ Continue(s)

\* a system pass that starts at offset 0 whatever the store holds
EnterSystemAtZero(s) ==
    [s EXCEPT !.pc = "sys_fetch", !.phase = "sys", !.offset = 0,
              !.start_offset = 0, !.pages_fetched = 0,
              !.reached_end = FALSE, !.tx = NoTx, !.page = <<>>,
              !.results = <<>>, !.existing = {}]

\* the system-channel pass begins: the saved offset is loaded
\* (messages.py 1370-1382)
EnterSystem(s) ==
    LET off == IF meta.ebay_messages_offset = NoCursor THEN 0
               ELSE meta.ebay_messages_offset
    IN  [s EXCEPT !.pc = "sys_fetch", !.phase = "sys", !.offset = off,
                  !.start_offset = off, !.pages_fetched = 0,
                  !.reached_end = FALSE, !.tx = NoTx, !.page = <<>>,
                  !.results = <<>>, !.existing = {}]

\* the full pass run after every incremental pass, due or not
AfterIncrementalAlwaysFull(s) ==
    [s EXCEPT !.pc = "full_fetch", !.phase = "pfull", !.offset = 0,
              !.tx = NoTx, !.page = <<>>, !.results = <<>>, !.existing = {}]

\* after the incremental pass: the periodic full pass if it is due
\* (messages.py 1359-1364), else the system channel
AfterIncremental(s) ==
    IF s.need_periodic_full
    THEN [s EXCEPT !.pc = "full_fetch", !.phase = "pfull", !.offset = 0,
                   !.tx = NoTx, !.page = <<>>, !.results = <<>>,
                   !.existing = {}]
    ELSE EnterSystem(s)

\* the full pass returning without ran_full_sync being set
AfterFullUnmarked(s) == EnterSystem(s)

\* _sync_from_members_full has returned (messages.py 1199-1201, 1361-1364)
AfterFull(s) == EnterSystem([s EXCEPT !.ran_full_sync = TRUE])

\* how a failed conversation listing ends the incremental pass: the
\* HTTPStatusError reaches "except Exception" (messages.py 1547-1553)
IncrListError(err) == "500"

\* how a failed conversation listing ends a full pass (messages.py 1018-1024)
FullListError(err) == IF err = "403" THEN "403" ELSE "500"

\* incremental pass: listing, fan-out of the message fetches, lookup of the
\* stored ids (messages.py 1205-1272)
IncrFetch ==
    /\ sync.pc = "incr_fetch"
    /\ \/ /\ \E err \in {"403", "5xx"} :
                Continue([sync EXCEPT !.pc = "raised", !.error = err])
          /\ UNCHANGED <<threads, messages>>
       \/ LET convs == FetchAllConversations(
                           "FROM_MEMBERS", meta.messages_member_last_sync_at)
              cids == {convs[i].conversationId : i \in 1..Len(convs)}
          IN  IF convs = <<>>
              THEN CommitThen(NoTx, AfterIncremental(sync), "409")
              ELSE /\ \E failed \in SUBSET cids :
                         LET res == Gather(cids, failed)
                         IN  Continue([sync EXCEPT
                                 !.pc = "incr_upsert", !.page = convs,
                                 !.results = res,
                                 !.existing = ExistingById(res)])
                   /\ UNCHANGED <<threads, messages>>
    /\ UNCHANGED <<fanout, text, now, ebay, meta>>

\* incremental pass: the conversation loop and its commit
\* (messages.py 1274-1357)
IncrUpsert ==
    /\ sync.pc = "incr_upsert"
    /\ LET st == UpsertPage([tx |-> NoTx, t |-> 0, m |-> 0], sync.page,
                            sync.results, "incr", sync.existing, 1)
       IN  CommitThen(st.tx,
                      AfterIncremental([sync EXCEPT
                          !.threads_synced = @ + st.t,
                          !.messages_synced = @ + st.m]),
                      "409")
    /\ UNCHANGED <<fanout, text, now, ebay, meta>>

\* full pass: one page of the listing and its message fetches
\* (messages.py 1009-1055)
FullFetch ==
    /\ sync.pc = "full_fetch"
    /\ \/ /\ \E err \in {"403", "5xx"} :
                Continue([sync EXCEPT !.pc = "raised", !.error = err])
          /\ UNCHANGED <<threads, messages>>
       \/ LET pg == ConvPage("FROM_MEMBERS", sync.offset)
              cids == {pg.conversations[i].conversationId :
                          i \in 1..Len(pg.conversations)}
          IN  IF pg.conversations = <<>>
              THEN CommitThen(sync.tx, AfterFull(sync), "409")
              ELSE /\ \E failed \in SUBSET cids :
                         LET res == Gather(cids, failed)
                         IN  Continue([sync EXCEPT
                                 !.pc = "full_upsert",
                                 !.page = pg.conversations,
                                 !.total = pg.total, !.next = pg.next,
                                 !.results = res,
                                 !.existing = ExistingById(res)])
                   /\ UNCHANGED <<threads, messages>>
    /\ UNCHANGED <<fanout, text, now, ebay, meta>>

\* a full pass that commits and ends after every page
EveryPageLast(offset, total, next) == TRUE

\* the test that ends the page loop of the full pass (messages.py 1134-1137)
LastPage(offset, total, next) == offset >= total \/ ~next

\* full pass: the conversation loop of the page, then the next page or the
\* single commit (messages.py 1056-1139)
FullUpsert ==
    /\ sync.pc = "full_upsert"
    /\ LET st == UpsertPage([tx |-> sync.tx, t |-> 0, m |-> 0], sync.page,
                            sync.results, "full", sync.existing, 1)
           s == [sync EXCEPT !.tx = st.tx, !.offset = @ + limit,
                             !.threads_synced = @ + st.t,
                             !.messages_synced = @ + st.m]
       IN  IF LastPage(s.offset, sync.total, sync.next)
           THEN CommitThen(st.tx, AfterFull(s), "409")
           ELSE /\ Continue([s EXCEPT !.pc = "full_fetch"])
                /\ UNCHANGED <<threads, messages>>
    /\ UNCHANGED <<fanout, text, now, ebay, meta>>

\* the error of a member listing on its way out of _do_sync_messages: the
\* except clauses roll the session back and raise the HTTPException
\* (messages.py 1018-1024, 1537-1553)
MemberListingRaised ==
    /\ sync.pc = "raised"
    /\ Exit(IF sync.phase = "incr" THEN IncrListError(sync.error)
            ELSE FullListError(sync.error))
    /\ UNCHANGED <<fanout, text, now, ebay, threads, messages, meta>>

\* ------------------------------------------------- the system-channel pass
\* max_pages (messages.py 1380)
MaxPages(full_sync) == IF full_sync THEN MaxPagesFull ELSE MaxPagesNormal

\* the page loop has ended without an exception: the system counts join the
\* totals (messages.py 1508-1509)
AfterSystemLoop(s) ==
    [s EXCEPT !.threads_synced = @ + s.ebay_threads_synced,
              !.messages_synced = @ + s.ebay_messages_synced,
              !.pc = IF s.reached_end THEN "sys_reset" ELSE "cursors"]

\* An IntegrityError of a page's flush is caught by the inner "except
\* Exception" (messages.py 1519-1520); the session then refuses the cursor
\* queries until it is rolled back, and that error reaches the outer
\* "except Exception" (messages.py 1547-1553)
SystemConflict == "500"

\* a failed system listing raised to the outer except clauses
SysListErrorRaised(err) == IF err = "403" THEN "403" ELSE "500"

\* how a failed system listing ends: the inner "except Exception" logs it
\* and the invocation goes on to the cursors (messages.py 1517-1520)
SysListError(err) == "logged"

\* system pass: one page of the listing and its message fetches
\* (messages.py 1384-1424)
SysFetch ==
    /\ sync.pc = "sys_fetch"
    /\ \/ /\ \E err \in {"403", "5xx"} :
                IF SysListError(err) = "logged"
                THEN Continue([sync EXCEPT !.pc = "cursors"])
                ELSE Exit(SysListError(err))
       \/ LET pg == ConvPage("FROM_EBAY", sync.offset)
              cids == {pg.conversations[i].conversationId :
                          i \in 1..Len(pg.conversations)}
              s == [sync EXCEPT !.pages_fetched = @ + 1,
                                !.page = pg.conversations]
          IN  IF pg.conversations = <<>>
              THEN Continue(AfterSystemLoop(s))
              ELSE \E failed \in SUBSET cids :
                      LET res == Gather(cids, failed)
                      IN  Continue([s EXCEPT
                              !.pc = "sys_upsert",
                              !.total = pg.total, !.next = pg.next,
                              !.results = res,
                              !.existing = ExistingById(res)])
    /\ UNCHANGED <<fanout, text, now, ebay, threads, messages, meta>>

\* where the page loop goes after a page's commit (messages.py 1384,
\* 1505-1507)
AfterSystemPage(s) ==
    IF s.offset >= s.total \/ ~s.next
    THEN AfterSystemLoop([s EXCEPT !.reached_end = TRUE])
    ELSE IF s.pages_fetched < MaxPages(s.full_sync)
    THEN [s EXCEPT !.pc = "sys_fetch"]
    ELSE AfterSystemLoop(s)

\* the offset kept in the session only and written when the pass is over
SavedOffsetAtEnd(new, old) == old

\* the value of ebay_messages_offset that a page's commit stores
\* (messages.py 1495-1503)
SavedOffset(new, old) == new

\* system pass: the conversation loop of the page, the new offset and the
\* page's commit (messages.py 1426-1507)
SysUpsert ==
    /\ sync.pc = "sys_upsert"
    /\ LET st == UpsertPage([tx |-> NoTx, t |-> 0, m |-> 0], sync.page,
                            sync.results, "sys", sync.existing, 1)
           s == [sync EXCEPT !.offset = @ + limit,
                             !.ebay_threads_synced = @ + st.t,
                             !.ebay_messages_synced = @ + st.m]
       IN  /\ CommitThen(st.tx, AfterSystemPage(s), SystemConflict)
           /\ meta' = IF PrimaryKeyConflict(st.tx.newMsgs, messages)
                      THEN meta
                      ELSE [meta EXCEPT !.ebay_messages_offset =
                                           SavedOffset(s.offset, @)]
    /\ UNCHANGED <<fanout, text, now, ebay>>

\* the end of the listing was reached: the offset is reset
\* (messages.py 1511-1516)
SysReset ==
    /\ sync.pc = "sys_reset"
    /\ meta' = [meta EXCEPT !.ebay_messages_offset = 0]
    /\ Continue([sync EXCEPT !.pc = "cursors"])
    /\ UNCHANGED <<fanout, text, now, ebay, threads, messages>>

\* ------------------------------------------------------------ the cursors
\* the last-sync cursor written without the member high-water mark
MetaUpdatesLastSyncOnly(m, s) == [m EXCEPT !.messages_last_sync_at = now]

\* meta_updates applied to the rows m of sync_metadata (messages.py
\* 1522-1535)
MetaUpdates(m, s) ==
    [m EXCEPT
        !.messages_last_sync_at = now,
        !.messages_member_last_sync_at = s.sync_start_time,
        !.messages_last_full_sync_at = IF s.ran_full_sync THEN now ELSE @]

\* meta_updates and their commit, then the return (messages.py 1522-1589)
WriteCursors ==
    /\ sync.pc = "cursors"
    /\ meta' = MetaUpdates(meta, sync)
    /\ Exit("ok")
    /\ UNCHANGED <<fanout, text, now, ebay, threads, messages>>

\* GET /sync-status (messages.py 955-971)
SyncStatus ==
    [last_sync_at |-> meta.messages_last_sync_at,
     is_syncing |-> sync_in_progress,
     total_unread_count |-> Cardinality({m \in messages : ~m.is_read})]

\* --------------------------------------------- the per-thread write paths
HasThread(tid) == \E t \in threads : t.thread_id = tid

\* POST /threads/{id}/mark-read (messages.py 276-298); the marketplace
\* update may fail and is then only logged
MarkThreadRead(tid, ebay_ok) ==
    /\ HasThread(tid)
    /\ ebay' = IF ebay_ok /\ tid \in ConvsOf("FROM_MEMBERS")
               THEN [ebay EXCEPT ![tid].msgs =
                        [i \in 1..Len(@) |-> [@[i] EXCEPT !.readStatus = TRUE]]]
               ELSE ebay
    /\ messages' = {IF m.thread_id = tid THEN [m EXCEPT !.is_read = TRUE]
                    ELSE m : m \in messages}
    /\ threads' = {IF t.thread_id = tid THEN [t EXCEPT !.unread_count = 0]
                   ELSE t : t \in threads}
    /\ response' = "none"
    /\ UNCHANGED <<fanout, text, now, meta, sync_lock, sync_in_progress, call, sync>>

\* the id the marketplace gives the reply sent in conversation tid
SentId(tid) == "x-" \o tid

\* ebay_message_id (messages.py 499): the id of the response, else a local one
SentMessageId(tid, has_id) ==
    IF has_id THEN SentId(tid) ELSE "sent-" \o ToString(now)

\* POST /threads/{id}/send (messages.py 424-541): the marketplace accepts
\* the reply, the row is stored and the rollup adjusted
SendReply(tid, has_id) ==
    /\ HasThread(tid)
    /\ tid \in ConvsOf("FROM_MEMBERS")
    /\ \A i \in 1..Len(ebay[tid].msgs) : ebay[tid].msgs[i].messageId # SentId(tid)
    /\ LET row == MessageRow(SentMessageId(tid, has_id), tid, "seller",
                             seller_username, "reply", <<>>, TRUE)
       IN  /\ ~PrimaryKeyConflict(<<row>>, messages)
           /\ messages' = messages \cup {row}
    /\ ebay' = [ebay EXCEPT ![tid].msgs =
                   Append(@, [messageId |-> SentId(tid), readStatus |-> TRUE,
                              messageBody |-> "reply",
                              senderUsername |-> seller_username,
                              messageMedia |-> <<>>])]
    /\ threads' = {IF t.thread_id = tid
                   THEN [t EXCEPT !.message_count = @ + 1] ELSE t :
                      t \in threads}
    /\ response' = "none"
    /\ UNCHANGED <<fanout, text, now, meta, sync_lock, sync_in_progress, call, sync>>

\* POST /threads/{id}/refresh (messages.py 589-674); an IntegrityError of
\* its commit is not handled and leaves the store as it was
RefreshThread(tid) ==
    /\ HasThread(tid)
    /\ tid \in ConvsOf("FROM_MEMBERS")
    /\ LET msgs == FetchAllConversationMessages(tid)
           res == [c \in {tid} |-> [ok |-> TRUE, msgs |-> msgs]]
           st == UpsertMessages([tx |-> NoTx, t |-> 0, m |-> 0], msgs, tid,
                                "refresh", ExistingById(res), 1)
           tx == Rollup(st.tx, tid, msgs)
       IN  /\ ~PrimaryKeyConflict(tx.newMsgs, messages)
           /\ threads' = CommittedThreads(tx)
           /\ messages' = CommittedMessages(tx)
    /\ response' = "none"
    /\ UNCHANGED <<fanout, text, now, ebay, meta, sync_lock, sync_in_progress, call, sync>>

\* ------------------------------------------------------- the environment
\* the id of the message a buyer may still post in conversation c
PostId(c) == "p-" \o c

\* a buyer posts in a member conversation: buyer activity at the current time
BuyerPost(c) ==
    /\ c \in ConvsOf("FROM_MEMBERS")
    /\ ebay[c].open
    /\ \A i \in 1..Len(ebay[c].msgs) : ebay[c].msgs[i].messageId # PostId(c)
    /\ ebay' = [ebay EXCEPT
           ![c].msgs = Append(@, [messageId |-> PostId(c),
                                  readStatus |-> FALSE,
                                  messageBody |-> "question",
                                  senderUsername |-> "buyer1",
                                  messageMedia |-> <<>>]),
           ![c].activity = now]
    /\ UNCHANGED <<fanout, text, now, threads, messages, meta, sync_lock,
                   sync_in_progress, call, sync>>
    /\ response' = "none"

\* PATCH /threads/{id}/flag (messages.py 676-689)
ToggleFlag(tid, is_flagged) ==
    /\ HasThread(tid)
    /\ threads' = {IF t.thread_id = tid THEN [t EXCEPT !.is_flagged = is_flagged]
                   ELSE t : t \in threads}
    /\ response' = "none"
    /\ UNCHANGED <<fanout, text, now, ebay, messages, meta, sync_lock, sync_in_progress, call, sync>>

\* the marketplace comes to list conversation c with another counterparty
\* name, another reference and another creation date than before
ConversationEdited(c) ==
    /\ c \in DOMAIN ebay
    /\ ebay[c].latest[1] # "buyer9"
    /\ ebay' = [ebay EXCEPT ![c].latest = <<"buyer9", seller_username>>,
                            ![c].ref = <<"LISTING", "item9">>,
                            ![c].created = 1,
                            ![c].activity = now]
    /\ response' = "none"
    /\ UNCHANGED <<fanout, text, now, threads, messages, meta, sync_lock, sync_in_progress, call, sync>>

Tick ==
    /\ now < MaxTime
    /\ now' = now + 1
    /\ UNCHANGED <<fanout, text, ebay, threads, messages, meta, sync_lock,
                   sync_in_progress, call, sync>>
    /\ response' = "none"

\* ------------------------------------------- the system-message normalizer
\* A text is a sequence of symbols: "<", ">", "/", " " and "\n" are the
\* characters, "&lt;" and "&gt;" the entities, "script", "style" and "p"
\* tag names ("p" for any of br, p, div, tr, li, h1..h6, in any case), and
\* every other symbol a run of ordinary characters.
Whitespace == {" ", "\n"}

\* "\n\n[Content truncated...]" (messages.py 873)
Marker == <<"\n", "\n", "[Content truncated...]">>

RECURSIVE IndexFrom(_, _, _)
\* the first index from i on at which s holds c, 0 if there is none
IndexFrom(s, c, i) ==
    IF i > Len(s) THEN 0
    ELSE IF s[i] = c THEN i
    ELSE IndexFrom(s, c, i + 1)

\* "</name>" begins at i
CloseAt(s, name, i) ==
    /\ i + 3 <= Len(s)
    /\ s[i] = "<" /\ s[i + 1] = "/" /\ s[i + 2] = name /\ s[i + 3] = ">"

RECURSIVE CloseFrom(_, _, _)
\* the first index from i on at which "</name>" begins, 0 if there is none
CloseFrom(s, name, i) ==
    IF i > Len(s) THEN 0
    ELSE IF CloseAt(s, name, i) THEN i
    ELSE CloseFrom(s, name, i + 1)

\* where the match of <name[^>]*>.*?</name> that begins at i ends, 0 if
\* none begins there
BlockEnd(s, name, i) ==
    IF i + 1 <= Len(s) /\ s[i] = "<" /\ s[i + 1] = name
    THEN LET j == IndexFrom(s, ">", i + 2)
             k == IF j = 0 THEN 0 ELSE CloseFrom(s, name, j + 1)
         IN  IF k = 0 THEN 0 ELSE k + 3
    ELSE 0

RECURSIVE StripBlocks(_, _, _)
\* re.sub(r'<name[^>]*>.*?</name>', '', s) from index i on
\* (messages.py 859-860)
StripBlocks(s, name, i) ==
    IF i > Len(s) THEN <<>>
    ELSE IF BlockEnd(s, name, i) # 0
    THEN StripBlocks(s, name, BlockEnd(s, name, i) + 1)
    ELSE <<s[i]>> \o StripBlocks(s, name, i + 1)

RECURSIVE BlockTags(_, _)
\* re.sub(r'<(br|p|div|tr|li|h[1-6])[^>]*>', '\n', s) from index i on
\* (messages.py 862)
BlockTags(s, i) ==
    IF i > Len(s) THEN <<>>
    ELSE IF i + 1 <= Len(s) /\ s[i] = "<" /\ s[i + 1] = "p"
              /\ IndexFrom(s, ">", i + 2) # 0
    THEN <<"\n">> \o BlockTags(s, IndexFrom(s, ">", i + 2) + 1)
    ELSE <<s[i]>> \o BlockTags(s, i + 1)

RECURSIVE StripTags(_, _)
\* re.sub(r'<[^>]+>', '', s) from index i on (messages.py 864)
StripTags(s, i) ==
    IF i > Len(s) THEN <<>>
    ELSE IF i + 1 <= Len(s) /\ s[i] = "<" /\ s[i + 1] # ">"
              /\ IndexFrom(s, ">", i + 2) # 0
    THEN StripTags(s, IndexFrom(s, ">", i + 2) + 1)
    ELSE <<s[i]>> \o StripTags(s, i + 1)

\* html.unescape (messages.py 866)
html_unescape(s) ==
    [i \in 1..Len(s) |->
        IF s[i] = "&lt;" THEN "<" ELSE IF s[i] = "&gt;" THEN ">" ELSE s[i]]

RECURSIVE CollapseSpaces(_, _)
\* re.sub(r'[ \t]+', ' ', s) from index i on (messages.py 868)
CollapseSpaces(s, i) ==
    IF i > Len(s) THEN <<>>
    ELSE IF s[i] = " " /\ i > 1 /\ s[i - 1] = " "
    THEN CollapseSpaces(s, i + 1)
    ELSE <<s[i]>> \o CollapseSpaces(s, i + 1)

RECURSIVE RunEnd(_, _)
\* the last index of the run of whitespace that holds index i
RunEnd(s, i) ==
    IF i + 1 <= Len(s) /\ s[i + 1] \in Whitespace THEN RunEnd(s, i + 1) ELSE i

RECURSIVE BlankLines(_, _)
\* re.sub(r'\n\s*\n', '\n\n', s) from index i on (messages.py 869): \s* is
\* greedy, so the match ends at the last newline of the run
BlankLines(s, i) ==
    IF i > Len(s) THEN <<>>
    ELSE LET last == {l \in (i + 1)..RunEnd(s, i) : s[l] = "\n"}
         IN  IF s[i] = "\n" /\ last # {}
             THEN <<"\n", "\n">> \o
                  BlankLines(s, (CHOOSE l \in last :
                                    \A m \in last : m <= l) + 1)
             ELSE <<s[i]>> \o BlankLines(s, i + 1)

RECURSIVE Strip(_)
\* str.strip() (messages.py 870)
Strip(s) ==
    IF s = <<>> THEN s
    ELSE IF Head(s) \in Whitespace THEN Strip(Tail(s))
    ELSE IF s[Len(s)] \in Whitespace THEN Strip(SubSeq(s, 1, Len(s) - 1))
    ELSE s

\* the text before its truncation (messages.py 859-870)
Cleaned(html_content) ==
    Strip(BlankLines(CollapseSpaces(html_unescape(StripTags(BlockTags(
        StripBlocks(StripBlocks(html_content, "script", 1), "style", 1),
        1), 1)), 1), 1))

\* text[:max_length] + marker when the text is too long (messages.py 872-873)
Truncated(t, max_length) ==
    IF Len(t) > max_length THEN SubSeq(t, 1, max_length) \o Marker ELSE t

\* _strip_html_to_text (messages.py 851-874)
strip_html_to_text(html_content, max_length) ==
    IF html_content = <<>> THEN <<>>
    ELSE Truncated(Cleaned(html_content), max_length)

\* no call of the normalizer under way
NoText ==
    [html_content |-> <<>>, max_length |-> 0, result |-> <<>>,
     returned |-> FALSE]

\* the call returns
StripHtmlToText ==
    /\ ~text.returned
    /\ text' = [text EXCEPT
           !.result = strip_html_to_text(text.html_content, text.max_length),
           !.returned = TRUE]
    /\ UNCHANGED <<fanout, now, ebay, threads, messages, meta, sync_lock,
                   sync_in_progress, call, response, sync>>

\* ------------------------------------------------------------ the fan-out
\* The per-conversation fetches of one page (messages.py 1028-1041,
\* 1234-1247, 1395-1408): asyncio.gather over one task per conversation,
\* each task fetching inside "async with sem". Tasks are numbered in the
\* order gather creates them, which is the order they first run and the
\* order the semaphore wakes its waiters in: tasks 1..started have acquired.
NoFan ==
    [pc |-> "idle", kind |-> NoValue, n |-> 0, started |-> 0, running |-> {},
     value |-> Semaphore, raised |-> FALSE]

\* a semaphore that never blocks
SemNeverLocked(value) == FALSE

\* asyncio.Semaphore.locked(): no permit is left
SemLocked(value) == value <= 0

\* gather(..., return_exceptions=True) hands over when every task is done
GatherDone(f) == f.started = f.n /\ f.running = {}

\* sem = asyncio.Semaphore(10) and the gather over the n conversations of
\* the page (the fetch list, in the incremental pass); an incremental pass
\* has one gather, a full or system pass one for each page
GatherStart ==
    /\ \/ fanout.pc = "idle"
       \/ fanout.pc = "written" /\ fanout.kind \in {"full", "sys"}
    /\ \E kind \in {"full", "incr", "sys"}, n \in 1..MaxFan :
          /\ fanout.pc = "written" => kind = fanout.kind
          /\ fanout' = [NoFan EXCEPT !.pc = "gather", !.kind = kind, !.n = n]
    /\ UNCHANGED <<text, now, ebay, threads, messages, meta, sync_lock, sync_in_progress, call, response, sync>>

\* "async with sem": the next task takes a permit and sends its request
SemAcquire ==
    /\ fanout.pc = "gather"
    /\ fanout.started < fanout.n
    /\ ~SemLocked(fanout.value)
    /\ fanout' = [fanout EXCEPT !.started = @ + 1,
                                !.running = @ \cup {fanout.started + 1},
                                !.value = @ - 1]
    /\ UNCHANGED <<text, now, ebay, threads, messages, meta, sync_lock, sync_in_progress, call, response, sync>>

\* a fetch returns or raises; leaving "async with sem" gives the permit back
SemRelease ==
    /\ fanout.pc = "gather"
    /\ \E t \in fanout.running, ok \in BOOLEAN :
          fanout' = [fanout EXCEPT !.running = @ \ {t},
                                   !.value = @ + 1,
                                   !.raised = @ \/ ~ok]
    /\ UNCHANGED <<text, now, ebay, threads, messages, meta, sync_lock, sync_in_progress, call, response, sync>>

\* "await asyncio.gather(...)" returns and the conversation loop of the
\* page starts writing to the session
GatherReturn ==
    /\ fanout.pc = "gather"
    /\ GatherDone(fanout)
    /\ fanout' = [fanout EXCEPT !.pc = "write"]
    /\ UNCHANGED <<text, now, ebay, threads, messages, meta, sync_lock, sync_in_progress, call, response, sync>>

\* the page's rows are written; the fetches still under way go on
PageWritten ==
    /\ fanout.pc = "write"
    /\ \/ fanout' = [fanout EXCEPT !.pc = "written"]
       \/ \E t \in fanout.running :
             fanout' = [fanout EXCEPT !.running = @ \ {t}, !.value = @ + 1]
    /\ UNCHANGED <<text, now, ebay, threads, messages, meta, sync_lock, sync_in_progress, call, response, sync>>

\* the pass is over
PassDone ==
    /\ fanout.pc = "written"
    /\ fanout' = NoFan
    /\ UNCHANGED <<text, now, ebay, threads, messages, meta, sync_lock, sync_in_progress, call, response, sync>>

\* ------------------------------------------------------------ the system
MemberMsg(id, body, sender, media) ==
    [messageId |-> id, readStatus |-> FALSE, messageBody |-> body,
     senderUsername |-> sender, messageMedia |-> media]

\* the marketplace at the start, holding the conversations `convs`: the
\* member conversations are on the first page of their listing but c4, which
\* is on the second, the system conversations on two pages. c2 holds a message without id or, when
\* `shared` = "member", a message whose id is also listed under c1; c3 holds
\* two messages with ids of their own; s1 lists its message twice when
\* `shared` = "system".
World(convs, shared) ==
    [c \in convs |->
       IF c = "c1" THEN
           [ref |-> <<"LISTING", "item1">>, created |-> 0,
            type |-> "FROM_MEMBERS", pos |-> 0, activity |-> 0, open |-> TRUE,
            latest |-> <<"buyer1", seller_username>>,
            msgs |-> <<MemberMsg("m1", "hello", "buyer1", <<"IMAGE", "not-a-dict">>)>>]
       ELSE IF c = "c2" THEN
           [ref |-> <<NoValue, NoValue>>, created |-> NoCursor,
            type |-> "FROM_MEMBERS", pos |-> 1, activity |-> 0, open |-> FALSE,
            latest |-> <<seller_username, "">>,
            msgs |-> IF shared = "member"
                     THEN <<MemberMsg("m1", "hello", "buyer1", <<>>)>>
                     ELSE <<MemberMsg("m2", "", "buyer2", <<"ZIP">>),
                            MemberMsg(NoValue, "draft", "buyer2", <<>>)>>]
       ELSE IF c = "c3" THEN
           [ref |-> <<"LISTING", "item3">>, created |-> 0,
            type |-> "FROM_MEMBERS", pos |-> 2, activity |-> 0, open |-> FALSE,
            latest |-> <<"buyer3", seller_username>>,
            msgs |-> <<MemberMsg("m3", "first", "buyer3", <<>>),
                       MemberMsg("m4", "second", seller_username, <<>>)>>]
       ELSE IF c = "c4" THEN
           [ref |-> <<"LISTING", "item4">>, created |-> 0,
            type |-> "FROM_MEMBERS", pos |-> limit, activity |-> 0, open |-> FALSE,
            latest |-> <<"buyer4", seller_username>>,
            msgs |-> <<MemberMsg("m5", "later", "buyer4", <<>>)>>]
       ELSE IF c = "s1" THEN
           [ref |-> <<"LISTING", "item1">>, created |-> 0,
            type |-> "FROM_EBAY", pos |-> 0, activity |-> 0, open |-> FALSE,
            latest |-> <<"eBay", seller_username>>,
            msgs |-> IF shared = "system"
                     THEN <<MemberMsg("e1", "notice", "", <<>>),
                            MemberMsg("e1", "notice", "", <<>>)>>
                     ELSE <<MemberMsg("e1", "notice", "", <<>>)>>]
       ELSE
           [ref |-> <<"ORDER", "order2">>, created |-> 0,
            type |-> "FROM_EBAY", pos |-> limit, activity |-> 0, open |-> FALSE,
            latest |-> <<"eBay", seller_username>>,
            msgs |-> <<MemberMsg("e2", "case", "eBay", <<>>)>>]]

\* a placeholder thread and its message, left by an earlier version
StubThread == ThreadRow("stub-1", NoValue)
StubMessage == MessageRow("stub-m", "stub-1", "buyer", NoValue, "", <<>>, FALSE)

NoMeta ==
    [messages_last_sync_at |-> NoCursor,
     messages_member_last_sync_at |-> NoCursor,
     messages_last_full_sync_at |-> NoCursor,
     ebay_messages_offset |-> NoCursor]

\* the state after start-up: nothing synced yet, the store empty but for
\* the placeholders an earlier version has left
Start(convs, stubs, shared) ==
    /\ now = 0
    /\ \E sh \in shared : ebay = World(convs, sh)
    /\ \E stub \in stubs :
          /\ threads = IF stub THEN {StubThread} ELSE {}
          /\ messages = IF stub THEN {StubMessage} ELSE {}
    /\ meta = NoMeta
    /\ sync_lock = Free
    /\ sync_in_progress = FALSE
    /\ call = [p \in Callers |-> NoCall]
    /\ response = "none"
    /\ sync = IdleSync
    /\ text = NoText
    /\ fanout = NoFan

\* the steps of the invocation that holds the lock
SyncStep ==
    \/ PurgeStubs
    \/ GetToken
    \/ IncrFetch
    \/ IncrUpsert
    \/ FullFetch
    \/ FullUpsert
    \/ MemberListingRaised
    \/ SysFetch
    \/ SysUpsert
    \/ SysReset
    \/ WriteCursors
    \/ Interrupt

\* Two callers of /sync, the clock and a buyer
Init == Start({"c1", "s1", "s2"}, {TRUE}, {"none"})

Next ==
    \/ \E p \in Callers, full \in BOOLEAN : SyncCall(p, full)
    \/ SyncStep
    \/ BuyerPost("c1")
    \/ Tick

Spec == Init /\ [][Next]_vars

\* One caller of /sync next to the per-thread write paths
InitStore == Start({"c1", "c2", "s1"}, {FALSE}, {"none", "member", "system"})

NextStore ==
    \/ \E full \in BOOLEAN : SyncCall(1, full)
    \/ SyncStep
    \/ \E ok \in BOOLEAN : MarkThreadRead("c1", ok)
    \/ \E has_id \in BOOLEAN : SendReply("c1", has_id)
    \/ RefreshThread("c1")

SpecStore == InitStore /\ [][NextStore]_vars

\* One caller of /sync next to the per-thread write paths, placeholders in
\* the store at the start
InitKeep == Start({"c1", "s1"}, {TRUE}, {"none"})

NextKeep ==
    \/ \E full \in BOOLEAN : SyncCall(1, full)
    \/ SyncStep
    \/ \E ok \in BOOLEAN : MarkThreadRead("c1", ok)
    \/ \E has_id \in BOOLEAN : SendReply("c1", has_id)
    \/ RefreshThread("c1")

SpecKeep == InitKeep /\ [][NextKeep]_vars

\* the symbols of the texts the normalizer is called with
Symbols == {"<", ">", "/", "script", "p", "evil()", " ", "\n", "&lt;"}

\* the fixture of the normalizer's contract, a script block whose end tag
\* holds a space, and a style block
Example ==
    <<"<", "p", ">", "Hello", "<", "/", "p", ">", "<", "script", ">",
      "evil()", "<", "/", "script", ">", "World">>
SpacedEndTag == <<"<", "script", ">", "evil()", "<", "/", "script", " ", ">">>
StyleBlock == <<"<", "style", ">", "evil()", "<", "/", "style", ">", "Hello">>

\* the values of max_length the normalizer is called with; 5000 is its
\* default (messages.py 851)
MaxLengths == {0, 1, 2, 5000}

\* A call of the normalizer on every text of up to MaxLen symbols and on
\* the fixtures, nothing else going on
InitText ==
    /\ now = 0
    /\ ebay = World({}, "none")
    /\ threads = {}
    /\ messages = {}
    /\ meta = NoMeta
    /\ sync_lock = Free
    /\ sync_in_progress = FALSE
    /\ call = [p \in Callers |-> NoCall]
    /\ response = "none"
    /\ sync = IdleSync
    /\ fanout = NoFan
    /\ \E html_content \in
             UNION {[1..k -> Symbols] : k \in 0..MaxLen}
                 \cup {Example, SpacedEndTag, StyleBlock},
          max_length \in MaxLengths :
             text = [NoText EXCEPT !.html_content = html_content,
                                   !.max_length = max_length]

NextText == StripHtmlToText

SpecText == InitText /\ [][NextText]_vars

\* Invocations of one caller that all run to their response: none is
\* cancelled
InitResume == Start({"c1", "s1", "s2"}, {FALSE}, {"none"})

NextResume == (\E full \in BOOLEAN : SyncCall(1, full)) \/ PurgeStubs \/ GetToken \/ IncrFetch \/ IncrUpsert \/ FullFetch \/ FullUpsert \/ MemberListingRaised \/ SysFetch \/ SysUpsert \/ SysReset \/ WriteCursors \/ Tick

SpecResume == InitResume /\ [][NextResume]_vars

\* One caller of /sync, the flag toggle, and a marketplace whose listing
\* entries change
InitFrame == Start({"c1", "c2", "s1"}, {FALSE}, {"none"})

NextFrame ==
    \/ \E full \in BOOLEAN : SyncCall(1, full)
    \/ SyncStep
    \/ \E tid \in {"c1", "s1"}, is_flagged \in BOOLEAN : ToggleFlag(tid, is_flagged)
    \/ \E c \in {"c1", "c2", "s1"} : ConversationEdited(c)

SpecFrame == InitFrame /\ [][NextFrame]_vars

\* the fan-out of the per-conversation fetches, for the pages of one pass
InitFan == Start({}, {FALSE}, {"none"})

NextFan == GatherStart \/ SemAcquire \/ SemRelease \/ GatherReturn \/ PageWritten \/ PassDone

SpecFan == InitFan /\ [][NextFan]_vars

\* One caller of /sync, the member listing two pages long and no system
\* conversation
InitPages == Start({"c1", "c4"}, {FALSE}, {"none"})

NextPages ==
    \/ \E full \in BOOLEAN : SyncCall(1, full)
    \/ PurgeStubs
    \/ GetToken
    \/ IncrFetch
    \/ IncrUpsert
    \/ FullFetch
    \/ FullUpsert
    \/ MemberListingRaised
    \/ SysFetch
    \/ WriteCursors
    \/ Interrupt
    \/ Tick

SpecPages == InitPages /\ [][NextPages]_vars

\* One caller of /sync and the clock, the marketplace holding member
\* conversations only, each message with an id of its own
InitFirst == \E convs \in SUBSET {"c1", "c3"} : Start(convs, {FALSE}, {"none"})

NextFirst ==
    \/ \E full \in BOOLEAN : SyncCall(1, full)
    \/ PurgeStubs
    \/ GetToken
    \/ IncrFetch
    \/ IncrUpsert
    \/ FullFetch
    \/ FullUpsert
    \/ MemberListingRaised
    \/ SysFetch
    \/ WriteCursors
    \/ Interrupt
    \/ Tick

SpecFirst == InitFirst /\ [][NextFirst]_vars

\* ================================================================ claims
Running == {p \in Callers : call[p].st = "running"}

\* the ways an accepted invocation ends
ExitKinds == {"ok", "400", "403", "409", "500", "interrupted"}

\* C1: of two sync() calls at most one executes the sync body at a time; a
\* call that arrives while the lock is held is answered 503 in the step it
\* arrives in, never waits for the lock, and leaves the threads, the
\* messages, the cursors and the running invocation as they were.
C1_AtMostOne ==
    /\ Cardinality(Running) <= 1
    /\ \A p \in Callers : call[p].st # "waiting"
    /\ \A p \in Running : sync_lock = p /\ sync.caller = p /\ sync.pc # "idle"

C1_Arrival ==
    /\ (Locked(sync_lock) /\ call' # call) => Running' = {}
    /\ (Locked(sync_lock) /\ response' = "503") =>
           UNCHANGED <<threads, messages, meta, sync, sync_lock>>
    /\ response' = "503" => Locked(sync_lock)

C1_SingleFlight == [](C1_AtMostOne) /\ [][C1_Arrival]_vars

\* a call was rejected while an invocation was past its purge, rows stored
C1_Witness ==
    /\ response = "503"
    /\ Running # {}
    /\ sync.pc \in {"sys_upsert", "cursors"}
    /\ \E t \in threads : ~IsStub(t.thread_id)

\* C2: is_syncing of syncStatus() is true in exactly the states in which a
\* sync() call holds the lock and executes, false before it starts and after
\* it ends, also when it ends by raising; a rejected call leaves it as it is.
C2_IsSyncing ==
    /\ SyncStatus.is_syncing = (Running # {})
    /\ SyncStatus.is_syncing = Locked(sync_lock)
    /\ SyncStatus.is_syncing = (sync.pc # "idle")
    /\ response \in ExitKinds => ~SyncStatus.is_syncing
    /\ response = "503" => SyncStatus.is_syncing

\* an invocation has just ended by raising and the flag is down
C2_Witness ==
    /\ response \in {"500", "interrupted"}
    /\ ~SyncStatus.is_syncing
    /\ \E t \in threads : ~IsStub(t.thread_id)

\* C3: after any sync() call has ended (return, handled failure, unhandled
\* exception) the lock is free and the flag false, and the call that comes
\* next is accepted, not answered 503.
C3_Released ==
    response \in ExitKinds =>
        /\ sync_lock = Free
        /\ ~sync_in_progress
        /\ Running = {}

C3_NextAccepted ==
    (response \in ExitKinds /\ call' # call) =>
        /\ response' # "503"
        /\ \E p \in Callers : Running' = {p} /\ sync_lock' = p

C3_ReleasedOnEveryExit == [](C3_Released) /\ [][C3_NextAccepted]_vars

\* an invocation has just ended with the marketplace's refusal passed on
C3_Witness ==
    /\ response = "403"
    /\ sync_lock = Free
    /\ ~sync_in_progress

\* C4: after any sequence of sync, thread refresh and send operations the
\* store holds at most one message row for each message_id.
C4_OneRowPerId ==
    \A a, b \in messages : a.message_id = b.message_id => a = b

\* an insert of an id that is already stored was refused, the row kept
C4_Witness ==
    /\ response = "409"
    /\ \E m \in messages : m.message_id = "m1"

\* the fields of a stored row that re-observation leaves alone
Fixed(m) == <<m.thread_id, m.sender_type, m.sender_username, m.content>>

\* the fetched message of id `id` in the results of the page in hand
Fetched(id) ==
    UNION {{sync.results[c].msgs[i] :
               i \in {j \in 1..Len(sync.results[c].msgs) :
                         sync.results[c].msgs[j].messageId = id}} :
           c \in {d \in DOMAIN sync.results : sync.results[d].ok}}

\* C5: a step in which a stored message_id is observed again (member sync,
\* system sync, thread refresh) leaves the row's thread, sender and content
\* as they were; when a page's loop commits, the row's is_read and
\* attachments are those of a fetched message of that id.
C5_Step ==
    /\ \A a \in messages : \A b \in messages' :
          a.message_id = b.message_id => Fixed(b) = Fixed(a)
    /\ (sync.pc \in {"incr_upsert", "full_upsert", "sys_upsert"}
          /\ sync' # sync /\ sync'.pc # "idle" /\ sync'.pc # "full_fetch") =>
          \A a \in sync.existing : \A b \in messages' :
             (a.message_id = b.message_id /\ a \in messages) =>
                \E f \in Fetched(a.message_id) :
                   /\ b.is_read = f.readStatus
                   /\ b.media = normalize_message_media(f.messageMedia)

C5_OnlyReadAndMedia == [][C5_Step]_vars

\* the system pass has met stored rows again and they are stored as before
C5_Witness ==
    /\ sync.pc = "cursors"
    /\ sync.existing # {}
    /\ sync.existing \subseteq messages
    /\ \E m \in messages : m.message_id = "m1" /\ ~m.is_read
    /\ \E t \in threads : t.thread_id = "c1" /\ t.unread_count = 1

\* C6: in every committed state each thread's message_count equals the
\* number of its stored message rows and its unread_count the number of
\* those rows with is_read false.
C6_CountsMatch ==
    \A t \in threads :
       /\ t.message_count =
             Cardinality({m \in messages : m.thread_id = t.thread_id})
       /\ t.unread_count =
             Cardinality({m \in messages :
                             m.thread_id = t.thread_id /\ ~m.is_read})

StoredIds == {m.message_id : m \in messages}

\* the ids the marketplace holds for conversation c
IdsOf(c) ==
    {ebay[c].msgs[i].messageId : i \in 1..Len(ebay[c].msgs)} \ {NoValue}

\* C7: the persisted member high-water mark covers committed data only: a
\* member conversation whose last buyer activity lies before the mark, and
\* which the next incremental listing therefore leaves out, has every
\* message the marketplace holds for it stored.
C7_NoGap ==
    meta.messages_member_last_sync_at # NoCursor =>
        \A c \in ConvsOf("FROM_MEMBERS") :
           ebay[c].activity < meta.messages_member_last_sync_at =>
               IdsOf(c) \subseteq StoredIds

\* the conversations of the page in hand whose messages were fetched
PageOk == {c \in DOMAIN sync.results : sync.results[c].ok}

\* the pages of the running system pass that are committed
PagesCommitted ==
    IF sync.pc = "sys_fetch" THEN sync.pages_fetched
    ELSE sync.pages_fetched - 1

\* C8: in the system pass, after k pages the working offset is the start
\* offset plus k times the page size and, from the first page on, it is the
\* persisted offset; a page's commit stores the page's threads, its messages
\* and the advanced offset in one step; an invocation that ends by a failure
\* or an interruption in the system pass leaves threads, messages and offset
\* as the last page commit stored them.
C8_Pages ==
    sync.pc \in {"sys_fetch", "sys_upsert"} =>
        /\ sync.offset = sync.start_offset + PagesCommitted * limit
        /\ PagesCommitted >= 1 => meta.ebay_messages_offset = sync.offset

C8_Step ==
    /\ (sync.pc = "sys_upsert" /\ sync' # sync /\ response' = "none") =>
          /\ meta'.ebay_messages_offset = sync.offset + limit
          /\ \A c \in PageOk :
                /\ \E t \in threads' : t.thread_id = c
                /\ \A i \in 1..Len(sync.results[c].msgs) :
                      sync.results[c].msgs[i].messageId # NoValue =>
                         \E m \in messages' :
                            m.message_id = sync.results[c].msgs[i].messageId
    /\ (sync.phase = "sys" /\ response' \in ExitKinds \ {"ok"}) =>
          UNCHANGED <<threads, messages, meta>>

C8_PageCommits == [](C8_Pages) /\ [][C8_Step]_vars

\* an invocation was interrupted after its first system page was committed:
\* the page's message is stored, the next page's is not, the offset is the
\* end of the first page
C8_Witness ==
    /\ response = "interrupted"
    /\ meta.ebay_messages_offset = limit
    /\ meta.messages_last_sync_at = NoCursor
    /\ "e1" \in StoredIds
    /\ "e2" \notin StoredIds

\* the system pass of the running invocation has seen the end of the listing
ObservedEnd ==
    /\ sync.phase = "sys"
    /\ \/ sync.reached_end
       \/ sync.pages_fetched >= 1 /\ sync.page = <<>>

\* C9: an invocation whose system pass has seen the end of the listing (an
\* empty page, the offset at or past the total, no next link) returns with
\* the persisted offset at 0.
C9_Step ==
    (sync.pc = "cursors" /\ response' = "ok" /\ ObservedEnd) =>
        meta'.ebay_messages_offset = 0

C9_ResetAtEnd == [][C9_Step]_vars

NoStub ==
    /\ \A t \in threads : ~IsStub(t.thread_id)
    /\ \A m \in messages : ~IsStub(m.thread_id)

\* C10: an invocation that holds the lock is past its purge before it asks
\* for a token or calls the marketplace, and from the purge's commit on no
\* placeholder thread or message is stored; once none is stored none appears
\* again, whatever way the invocation ends.
C10_Purged == sync.pc \notin {"idle", "purge"} => NoStub

C10_Step ==
    /\ NoStub => NoStub'
    /\ (sync.pc = "purge" /\ sync' # sync /\ response' = "none") => NoStub'

C10_PurgeFirst == [](C10_Purged) /\ [][C10_Step]_vars

\* the placeholders are gone although the invocation failed at its token
C10_Witness ==
    /\ response = "400"
    /\ NoStub
    /\ meta = NoMeta

RECURSIVE SumLen(_)
\* the number of messages the marketplace holds in the conversations S
SumLen(S) ==
    IF S = {} THEN 0
    ELSE LET c == CHOOSE x \in S : TRUE
         IN  Len(ebay[c].msgs) + SumLen(S \ {c})

\* the running invocation is incremental and no invocation has written the
\* member mark or the full-sync cursor yet
FirstIncr ==
    /\ sync.pc # "idle"
    /\ ~sync.full_sync
    /\ meta.messages_member_last_sync_at = NoCursor
    /\ meta.messages_last_full_sync_at = NoCursor

\* the fetches of the page in hand all succeeded
AllOk == \A c \in DOMAIN sync.results : sync.results[c].ok

\* C11: a first-ever incremental sync never reports more threads or messages
\* than it stored, nor stores more than the marketplace holds (the baseline
\* fetch and the periodic full pass do not count twice).
C11_Bounded ==
    FirstIncr =>
        /\ sync.threads_synced <= Cardinality(threads)
        /\ sync.messages_synced <= Cardinality(messages)
        /\ Cardinality(threads) <= Cardinality(ConvsOf("FROM_MEMBERS"))
        /\ Cardinality(messages) <= SumLen(ConvsOf("FROM_MEMBERS"))

\* C11: in a first-ever incremental sync the start time is captured before
\* the listing and the periodic full pass is due; on an empty store with all
\* fetches succeeding the baseline creates and counts exactly the N threads
\* and M messages of the marketplace; the counts never fall while the
\* invocation runs; the return writes the member mark as the captured start
\* time and the full-sync cursor.
C11_Step ==
    /\ (FirstIncr /\ sync.pc = "token" /\ sync'.pc = "incr_fetch") =>
          sync'.sync_start_time = now /\ sync'.need_periodic_full
    /\ (FirstIncr /\ sync.pc \in {"incr_fetch", "incr_upsert"}
          /\ sync' # sync /\ response' = "none"
          /\ sync'.pc \notin {"incr_upsert", "raised"}
          /\ AllOk /\ threads = {} /\ messages = {}) =>
          /\ Cardinality(threads') = Cardinality(ConvsOf("FROM_MEMBERS"))
          /\ Cardinality(messages') = SumLen(ConvsOf("FROM_MEMBERS"))
          /\ sync'.threads_synced = Cardinality(threads')
          /\ sync'.messages_synced = Cardinality(messages')
          /\ sync'.pc = "full_fetch" /\ sync'.phase = "pfull"
    /\ (FirstIncr /\ sync'.caller = sync.caller /\ response' = "none"
          /\ sync.pc # "purge") =>
          /\ sync'.threads_synced >= sync.threads_synced
          /\ sync'.messages_synced >= sync.messages_synced
    /\ (FirstIncr /\ sync.pc = "cursors" /\ response' = "ok") =>
          /\ sync.ran_full_sync
          /\ meta'.messages_member_last_sync_at = sync.sync_start_time
          /\ meta'.messages_last_full_sync_at = now

C11_FirstIncremental == [](C11_Bounded) /\ [][C11_Step]_vars

\* a first-ever incremental sync is about to return: two threads and three
\* messages stored and counted once, the clock past the captured start time
C11_Witness ==
    /\ FirstIncr
    /\ sync.pc = "cursors"
    /\ sync.threads_synced = 2 /\ Cardinality(threads) = 2
    /\ sync.messages_synced = 3 /\ Cardinality(messages) = 3
    /\ sync.ran_full_sync
    /\ sync.sync_start_time < now

\* the stored threads and messages of member conversations
MemberThreads == {t \in threads : t.thread_id \in ConvsOf("FROM_MEMBERS")}
MemberMessages == {m \in messages : m.thread_id \in ConvsOf("FROM_MEMBERS")}

\* the running invocation is incremental and the listing for its activity
\* window, from the member mark on, holds no conversation
ZeroListing ==
    /\ sync.pc # "idle"
    /\ ~sync.full_sync
    /\ meta.messages_member_last_sync_at # NoCursor
    /\ FetchAllConversations("FROM_MEMBERS",
                             meta.messages_member_last_sync_at) = <<>>

\* C12 as stated: an incremental invocation whose listing holds no
\* conversation creates or changes no member thread or message.
C12_NoMemberRows_Step ==
    ZeroListing => UNCHANGED <<MemberThreads, MemberMessages>>

C12_NoMemberRows == [][C12_NoMemberRows_Step]_vars

\* The part of C12 that holds: an incremental invocation whose listing holds no
\* conversation creates or changes no member thread or message outside a
\* periodic full pass; its incremental pass counts nothing and hands over to
\* the periodic full pass if that is due, else to the system pass; its return
\* writes the last-sync cursor as the current time, which syncStatus() then
\* reports.
C12_Step ==
    /\ (ZeroListing /\ sync.phase # "pfull") =>
          UNCHANGED <<MemberThreads, MemberMessages>>
    /\ (ZeroListing /\ sync.pc = "incr_fetch" /\ sync' # sync
          /\ response' = "none" /\ sync'.pc # "raised") =>
          /\ sync'.threads_synced = 0 /\ sync'.messages_synced = 0
          /\ sync'.pc = IF sync.need_periodic_full THEN "full_fetch"
                        ELSE "sys_fetch"
    /\ (ZeroListing /\ sync.pc = "cursors" /\ response' = "ok") =>
          /\ meta'.messages_last_sync_at = now
          /\ SyncStatus'.last_sync_at = now

C12_ZeroListing == [][C12_Step]_vars

\* an incremental invocation with an empty listing and no periodic full pass
\* has returned and the status shows the new time
C12_Witness ==
    /\ response = "ok"
    /\ now > 0
    /\ SyncStatus.last_sync_at = now
    /\ meta.messages_member_last_sync_at = now
    /\ meta.messages_last_full_sync_at = now
    /\ \A c \in ConvsOf("FROM_MEMBERS") : ebay[c].activity < now

\* a member listing has failed with `err` and its handling is the next step
ListingFailed(err) == sync.pc = "raised" /\ sync.error = err

\* C13: a 403 of a member-channel fetch ends the invocation with the
\* forbidden outcome, in the incremental pass as in a full pass: never with
\* success, never with the generic failure.
C13_Step ==
    (ListingFailed("403") /\ response' \in ExitKinds \ {"interrupted"})
        => response' = "403"

C13_Forbidden == [][C13_Step]_vars

\* the message fetch of some listed conversation has failed and the page
\* is about to be processed by a member pass
MemberFetchFailed ==
    /\ sync.pc \in {"incr_upsert", "full_upsert"}
    /\ ~AllOk

\* C14: a transient failure of a member-channel fetch, of the listing or of
\* one conversation's messages, fails the invocation: the pass does not go
\* on, and the invocation does not return success.
C14_Step ==
    /\ (ListingFailed("5xx") /\ sync' # sync) =>
           response' \in ExitKinds \ {"ok"}
    /\ (MemberFetchFailed /\ sync' # sync) =>
           response' \in ExitKinds \ {"ok"}

C14_FailsLoudly == [][C14_Step]_vars

\* the step in which the system listing fails: the page loop is left with
\* no page counted (messages.py 1385-1391 raise before pages_fetched += 1)
SystemListingFails ==
    /\ sync.pc = "sys_fetch"
    /\ sync' # sync
    /\ response' # "interrupted"
    /\ sync'.pages_fetched = sync.pages_fetched

\* C15: an error of the system-channel listing is caught inside the
\* invocation: the stored rows and the cursors stay as they are, the
\* invocation goes on to its cursor writes, and those end it with success,
\* the last-sync cursor set to the current time and the member mark to the
\* invocation's start, as in a clean run.
C15_Step ==
    /\ SystemListingFails =>
          /\ response' = "none"
          /\ sync'.pc = "cursors"
          /\ sync'.caller = sync.caller
          /\ UNCHANGED <<threads, messages, meta>>
    /\ (sync.pc = "cursors" /\ sync' # sync /\ response' # "interrupted") =>
          /\ response' = "ok"
          /\ meta'.messages_last_sync_at = now
          /\ meta'.messages_member_last_sync_at = sync.sync_start_time
          /\ UNCHANGED <<threads, messages>>

C15_CaughtLocally == [][C15_Step]_vars

\* an invocation has returned success with the member conversation stored,
\* no system row stored and no system offset saved: its system listing
\* failed
C15_Witness ==
    /\ response = "ok"
    /\ meta.messages_last_sync_at # NoCursor
    /\ meta.messages_member_last_sync_at # NoCursor
    /\ meta.ebay_messages_offset = NoCursor
    /\ \E t \in threads : t.thread_id = "c1"
    /\ \E m \in messages : m.thread_id = "c1"
    /\ \A t \in threads : ebay[t.thread_id].type = "FROM_MEMBERS"

\* the transaction the conversation loop at sync.pc is about to flush, or
\* NoTx where the step flushes nothing
PendingTx ==
    IF sync.pc = "incr_upsert"
    THEN UpsertPage([tx |-> NoTx, t |-> 0, m |-> 0], sync.page, sync.results,
                    "incr", sync.existing, 1).tx
    ELSE IF sync.pc = "full_upsert"
              /\ (sync.offset + limit >= sync.total \/ ~sync.next)
    THEN UpsertPage([tx |-> sync.tx, t |-> 0, m |-> 0], sync.page,
                    sync.results, "full", sync.existing, 1).tx
    ELSE IF sync.pc = "sys_upsert"
    THEN UpsertPage([tx |-> NoTx, t |-> 0, m |-> 0], sync.page, sync.results,
                    "sys", sync.existing, 1).tx
    ELSE NoTx

\* C16: a flush that violates the uniqueness of message_id, in a member pass
\* or in the system pass, stores nothing and ends the invocation with the
\* conflict outcome 409: never with success, never with the generic
\* failure.
C16_Step ==
    (/\ PrimaryKeyConflict(PendingTx.newMsgs, messages)
     /\ sync' # sync
     /\ response' # "interrupted")
        => /\ response' = "409"
           /\ UNCHANGED <<threads, messages>>

C16_Conflict == [][C16_Step]_vars

\* the stored rows that are not placeholders
RealThreads == {t \in threads : ~IsStub(t.thread_id)}
RealMessages == {m \in messages : ~IsStub(m.thread_id)}

\* the store holds a thread for every conversation of the marketplace and a
\* row for every message id it lists
Complete ==
    /\ \A c \in DOMAIN ebay : HasThread(c)
    /\ \A c \in DOMAIN ebay : IdsOf(c) \subseteq StoredIds

\* the threads and messages the running invocation would report as new: the
\* system counts join the totals when the page loop ends
NewThreads(s) ==
    s.threads_synced +
        (IF s.pc \in {"sys_fetch", "sys_upsert"} THEN s.ebay_threads_synced ELSE 0)
NewMessages(s) ==
    s.messages_synced +
        (IF s.pc \in {"sys_fetch", "sys_upsert"} THEN s.ebay_messages_synced ELSE 0)

\* an earlier invocation has returned success, the marketplace is as it was
\* at the start, and the running invocation is about to return
LaterRunReturns ==
    /\ sync.pc = "cursors"
    /\ meta.messages_last_sync_at # NoCursor
    /\ ebay = World({"c1", "s1", "s2"}, "none")

C17_Step ==
    (Complete /\ ebay' = ebay) =>
        /\ RealThreads' = RealThreads
        /\ RealMessages' = RealMessages
        /\ (sync.pc # "idle" /\ sync'.pc # "idle" /\ sync'.caller = sync.caller
                /\ sync'.pc # "purge") =>
              /\ NewThreads(sync') <= NewThreads(sync)
              /\ NewMessages(sync') <= NewMessages(sync)

C18_Step ==
    /\ \A t \in RealThreads : \E u \in threads' : u.thread_id = t.thread_id
    /\ \A m \in RealMessages :
          \E n \in messages' :
             n.message_id = m.message_id /\ n.thread_id = m.thread_id

C18_NeverDeleted == [][C18_Step]_vars

\* a later invocation's purge has run on a store that holds a synced message
\* and a sent reply next to no placeholder
C18_Witness ==
    /\ sync.pc = "token"
    /\ NoStub
    /\ \E m \in messages : m.message_id = "m1"
    /\ \E m \in messages : m.message_id = SentId("c1")
    /\ \E t \in threads : t.thread_id = "s1"

\* t holds a tag: "<", one symbol or more other than ">", then ">"
HasTag(t) ==
    \E i, j \in 1..Len(t) :
        /\ t[i] = "<" /\ t[j] = ">" /\ j >= i + 2
        /\ \A k \in (i + 1)..(j - 1) : t[k] # ">"

\* an end tag of `name` begins at c: HTML allows whitespace before its ">"
EndTagAt(s, name, c) ==
    /\ c + 3 <= Len(s)
    /\ s[c] = "<" /\ s[c + 1] = "/" /\ s[c + 2] = name
    /\ \E g \in (c + 3)..Len(s) :
          /\ s[g] = ">"
          /\ \A h \in (c + 3)..(g - 1) : s[h] \in Whitespace

\* index k of s lies inside a script or style block: after the start tag
\* and before the first end tag that follows it
InBlock(s, k) ==
    \E name \in {"script", "style"}, i \in 1..Len(s) :
        /\ i + 1 <= Len(s) /\ s[i] = "<" /\ s[i + 1] = name
        /\ LET j == IndexFrom(s, ">", i + 2)
           IN  /\ j # 0 /\ j < k
               /\ \E c \in (k + 1)..Len(s) : EndTagAt(s, name, c)
               /\ \A c \in (j + 1)..k : ~EndTagAt(s, name, c)

\* C19: whatever the text and the bound, the normalizer's result holds no
\* tag and nothing that the input holds inside script or style blocks only;
\* it is the cleaned text when that is no longer than max, else its first
\* max symbols and the marker, so at most max plus the marker long; for the
\* fixture and max 5000 it holds "Hello" and "World" and not "evil()".
C19_Normalized ==
    text.returned =>
        LET html_content == text.html_content
            max_length == text.max_length
            out == text.result
            clean == Cleaned(html_content)
        IN  /\ ~HasTag(out)
            /\ (\A k \in 1..Len(html_content) :
                    html_content[k] = "evil()" => InBlock(html_content, k))
                  => "evil()" \notin Range(out)
            /\ Len(out) <= max_length + Len(Marker)
            /\ IF Len(clean) > max_length
               THEN out = SubSeq(clean, 1, max_length) \o Marker
               ELSE out = clean
            /\ (html_content = Example /\ max_length = 5000) =>
                  /\ "Hello" \in Range(out) /\ "World" \in Range(out)
                  /\ "evil()" \notin Range(out)

\* the last-full-sync cursor was absent or older than 10 minutes when the
\* running invocation started (the cursors change at its return only)
StaleAtStart ==
    \/ meta.messages_last_full_sync_at = NoCursor
    \/ (sync.sync_start_time - meta.messages_last_full_sync_at) * TickMinutes
           > PeriodicFullMinutes

\* the step in which the incremental pass of the running invocation ends
\* with its commit
IncrementalPassEnds ==
    /\ sync.phase = "incr"
    /\ sync.pc \in {"incr_fetch", "incr_upsert"}
    /\ response' = "none"
    /\ sync'.pc \notin {"incr_fetch", "incr_upsert", "raised"}

\* C20: when the incremental pass of an invocation ends, a full member pass
\* follows in the same invocation exactly if the last-full-sync cursor was
\* absent or older than 10 minutes at the start, else the system pass; the
\* cursor is written only at the successful return of an invocation that
\* ran a full pass; after a successful return the cursor is set and at most
\* 10 minutes older than the invocation's start.
C20_Step ==
    /\ IncrementalPassEnds =>
          /\ sync'.pc = IF StaleAtStart THEN "full_fetch" ELSE "sys_fetch"
          /\ sync'.phase = IF StaleAtStart THEN "pfull" ELSE "sys"
    /\ meta'.messages_last_full_sync_at # meta.messages_last_full_sync_at =>
          /\ sync.pc = "cursors" /\ sync.ran_full_sync
          /\ sync.full_sync \/ StaleAtStart
          /\ response' = "ok"
          /\ meta'.messages_last_full_sync_at = now
    /\ response' = "ok" =>
          /\ meta'.messages_last_full_sync_at # NoCursor
          /\ (sync.sync_start_time - meta'.messages_last_full_sync_at)
                 * TickMinutes <= PeriodicFullMinutes

C20_PeriodicFull == [][C20_Step]_vars

\* an incremental invocation that found the cursor fresh is about to return
\* without a full pass, and the cursor stays as an earlier invocation wrote it
C20_Witness ==
    /\ sync.pc = "cursors"
    /\ ~sync.full_sync
    /\ ~sync.ran_full_sync
    /\ meta.messages_last_full_sync_at # NoCursor
    /\ ~StaleAtStart

\* a full member pass, explicit or periodic, is under way
InFullPass == sync.phase \in {"full", "pfull"} /\ sync.pc # "cursors"

\* C21: a full member pass starts at offset 0 with nothing pending and
\* changes the stored threads and messages in one step only, the commit
\* that follows its last page (offset at or past the total, no next link, or
\* an empty page); a pass that ends in any other way, a listing error or a
\* 403 on a later page included, leaves the store as it found it.
C21_Step ==
    /\ (sync' # sync /\ sync'.pc = "full_fetch" /\ sync.pc # "full_upsert") =>
          sync'.offset = 0 /\ sync'.tx = NoTx
    /\ (InFullPass /\ <<threads, messages>>' # <<threads, messages>>) =>
          /\ response' = "none"
          /\ sync'.phase = "sys"
          /\ \/ /\ sync.pc = "full_upsert"
                /\ sync.offset + limit >= sync.total \/ ~sync.next
             \/ /\ sync.pc = "full_fetch"
                /\ ConvPage("FROM_MEMBERS", sync.offset).conversations = <<>>
    /\ (InFullPass /\ response' \in ExitKinds) =>
          UNCHANGED <<threads, messages>>

C21_CommitsOnce == [][C21_Step]_vars

\* the listing of the second page has failed with the first page's thread
\* and message pending, and nothing of them is stored
C21_Witness ==
    /\ sync.pc = "raised"
    /\ sync.phase = "full"
    /\ sync.offset = limit
    /\ \E t \in sync.tx.newThreads : t.thread_id = "c1"
    /\ sync.tx.newMsgs # <<>>
    /\ threads = {} /\ messages = {}

\* C22: the system pass fetches the messages of a listed conversation only
\* when no thread is stored for it: the page's fetches name no conversation
\* that has a thread.
C22_Step == (sync.pc = "sys_fetch" /\ sync'.pc = "sys_upsert") => \A cid \in DOMAIN sync'.results : ~HasThread(cid)
C22_FetchesNewOnly == [][C22_Step]_vars

\* C23: in each of the three passes at most 10 per-conversation fetches are
\* in flight at any moment, and while a page's rows are written none of its
\* fetches is waiting or in flight.
C23_BoundedFanOut ==
    /\ Cardinality(fanout.running) <= 10
    /\ fanout.pc \in {"write", "written"} => fanout.started = fanout.n /\ fanout.running = {}

\* the cap is in effect: ten fetches in flight and a task waiting for a permit
C23_Witness == fanout.pc = "gather" /\ Cardinality(fanout.running) = 10 /\ fanout.started < fanout.n /\ fanout.raised

\* the offset that the store holds for the system pass
PersistedOffset == IF meta.ebay_messages_offset = NoCursor THEN 0 ELSE meta.ebay_messages_offset

\* C24: when no invocation is cut short, the system pass resumes across
\* invocations. Outside the reset the persisted offset is a multiple of the
\* page size that names a page of the listing; the pass fetches at the
\* persisted offset, at most 1 page in a normal and 5 in a full-mode
\* invocation; every page it is given holds conversations, so that ceil(T/L)
\* pages cover the listing; and the commit of the last page is followed by
\* the reset of the offset to 0.
C24_Offsets ==
    /\ sync.pc # "sys_reset" => PersistedOffset % limit = 0 /\ (PersistedOffset = 0 \/ PersistedOffset < Total("FROM_EBAY"))
    /\ sync.pc = "sys_fetch" => sync.offset = PersistedOffset
    /\ sync.phase = "sys" => sync.pages_fetched <= (IF sync.full_sync THEN 5 ELSE 1)

C24_Step ==
    /\ (sync.pc = "sys_fetch" /\ sync'.pc = "sys_upsert") => sync'.page = ConvPage("FROM_EBAY", PersistedOffset).conversations /\ sync'.page # <<>>
    /\ (sync.pc = "sys_upsert" /\ sync' # sync /\ response' = "none" /\ sync.offset + limit >= Total("FROM_EBAY")) => sync'.pc = "sys_reset"
    /\ (sync.pc = "sys_reset" /\ sync' # sync) => meta'.ebay_messages_offset = 0 /\ sync'.pc = "cursors"

C24_Resumes == [](C24_Offsets) /\ [][C24_Step]_vars

\* a normal invocation resumed at the second page, which is the last, and is
\* about to reset the offset
C24_Witness == sync.pc = "sys_reset" /\ ~sync.full_sync /\ sync.start_offset = limit /\ sync.pages_fetched = 1 /\ "e2" \in StoredIds /\ meta.ebay_messages_offset = 2 * limit

\* C25: a step of a sync pass leaves, in every thread that was stored before
\* it, is_flagged, the two reference ids and the creation time as they were,
\* and changes buyer_username only when it was unset; no stored thread goes.
C25_Step ==
    sync' # sync =>
        \A t \in threads : \E u \in threads' :
            /\ u.thread_id = t.thread_id
            /\ u.is_flagged = t.is_flagged
            /\ u.ebay_item_id = t.ebay_item_id
            /\ u.ebay_order_id = t.ebay_order_id
            /\ u.created_at = t.created_at
            /\ u.buyer_username # t.buyer_username => t.buyer_username = NoValue

C25_ExistingThreadKept == [][C25_Step]_vars

\* a full pass has met two stored threads whose listing entries had changed:
\* the thread without a name has taken the listed one, the flagged thread
\* has kept its name, its reference and its creation time
C25_Witness ==
    /\ sync.phase = "sys"
    /\ sync.ran_full_sync
    /\ \E t \in threads : t.thread_id = "c2" /\ t.buyer_username = "buyer9" /\ t.ebay_item_id = NoValue
    /\ \E t \in threads : t.thread_id = "c1" /\ t.buyer_username = "buyer1" /\ t.is_flagged /\ t.ebay_item_id = "item1" /\ t.created_at = 0
    /\ ebay["c1"].latest[1] = "buyer9"
    /\ ebay["c1"].ref[2] = "item9"

\* the stored messages of thread tid
MessagesOf(tid) == {m \in messages : m.thread_id = tid}

\* C26: a stored message that is read stays read, and a thread whose
\* messages are all read and whose unread_count is 0 keeps unread_count 0 as
\* long as no message is added to it: no sync and no refresh sets the read
\* state back.
C26_Step ==
    /\ \A m \in messages : m.is_read => \A r \in messages' : r.message_id = m.message_id => r.is_read
    /\ \A t \in threads :
          (/\ t.unread_count = 0
           /\ MessagesOf(t.thread_id) # {}
           /\ \A m \in MessagesOf(t.thread_id) : m.is_read
           /\ {m.message_id : m \in MessagesOf(t.thread_id)'} = {m.message_id : m \in MessagesOf(t.thread_id)})
          => \A u \in threads' : u.thread_id = t.thread_id => u.unread_count = 0

C26_ReadKept == [][C26_Step]_vars

\* the rollups of thread row t match the messages msgs stored for it
RollupsMatch(t, msgs) ==
    LET own == {m \in msgs : m.thread_id = t.thread_id}
    IN  /\ t.message_count = Cardinality(own)
        /\ t.unread_count = Cardinality({m \in own : ~m.is_read})

\* the running sync holds a fetched list of conversation c that another
\* operation has outdated since
StaleFetch(c) ==
    /\ c \in DOMAIN sync.results
    /\ sync.results[c].ok
    /\ sync.results[c].msgs # ebay[c].msgs

\* C27: when a send, mark-read or refresh has committed on a thread after
\* the running sync fetched the thread's messages, the commit of the sync
\* leaves the thread's rollups matching its stored messages, if they did
\* before.
C27_Step ==
    (sync' # sync /\ sync.pc \in {"incr_upsert", "full_upsert", "sys_upsert"}) =>
        \A t \in threads :
            (RollupsMatch(t, messages) /\ StaleFetch(t.thread_id)) =>
                \A u \in threads' : u.thread_id = t.thread_id => RollupsMatch(u, messages')

C27_RollupsNotStale == [][C27_Step]_vars

\* C28: every stored message belongs to a stored thread.
C28_MessageHasThread == \A m \in messages : \E t \in threads : t.thread_id = m.thread_id

\* the purge has removed the placeholder rows, and messages stored by the
\* member pass, the system pass and a send are held by their threads
C28_Witness == NoStub /\ {"m1", "e1", "x-c1"} \subseteq StoredIds /\ sync.pc = "idle"

\* the last-successful-sync, member high-water-mark and last-full-sync
\* cursors held by rows m of sync_metadata
Cursors(m) == <<m.messages_last_sync_at, m.messages_member_last_sync_at, m.messages_last_full_sync_at>>

\* C29: a step that ends an invocation in failure, and every step before
\* the last of an invocation, leaves the three cursors as they are; they
\* change only in the step that ends an invocation with success, which
\* writes the last-sync time and the member high-water mark together, and
\* the last-full-sync time with them when a full member pass ran.
C29_Step ==
    /\ response' \in ExitKinds \ {"ok"} => Cursors(meta') = Cursors(meta)
    /\ Cursors(meta') # Cursors(meta) =>
          /\ response' = "ok"
          /\ sync.pc = "cursors"
          /\ meta'.messages_last_sync_at = now
          /\ meta'.messages_member_last_sync_at = sync.sync_start_time
          /\ meta'.messages_last_full_sync_at # meta.messages_last_full_sync_at => sync.ran_full_sync

C29_CursorsAtEnd == [][C29_Step]_vars

\* an invocation has just failed at a later time than the success that wrote
\* the cursors, which hold the values of that success
C29_Witness ==
    /\ response \in {"403", "500"}
    /\ now = 1
    /\ meta.messages_last_sync_at = 0
    /\ meta.messages_member_last_sync_at = 0
    /\ meta.messages_last_full_sync_at = 0

\* C30: the counts an invocation goes on to report follow the rows it
\* commits: in every step of a running invocation the totals it would
\* report (the system counts included) grow by the number of thread and
\* message rows that the step adds to the store, also in the step in which
\* the system pass ends on an error after it committed pages.
C30_Step ==
    (sync.pc # "idle" /\ sync'.pc # "idle") =>
        /\ NewThreads(sync') - NewThreads(sync) = Cardinality(RealThreads') - Cardinality(RealThreads)
        /\ NewMessages(sync') - NewMessages(sync) = Cardinality(RealMessages') - Cardinality(RealMessages)

C30_ReportedCounts == [][C30_Step]_vars
====
